---- MODULE Spec2Model ----
(***************************************************************************)
(* A model of src/types/sheet.rs: CalamineSheet (a calamine Range<Data>    *)
(* behind an Arc, plus a Mutex<HashSet> of merged regions) and             *)
(* CalamineCellIterator (the padded row cursor).                           *)
(***************************************************************************)
EXTENDS Integers, Sequences, FiniteSets, TLC

(***************************************************************************)
(* Bounds of the model.                                                    *)
(***************************************************************************)
MaxStart == 1
MaxHeight == 2
MaxWidth == 2
MaxCoord == 1
MaxMerges == 1
MaxNRows == 3
MaxCalls == 5

VARIABLES range, merged_cells, poisoned, cursors, last

vars == <<range, merged_cells, poisoned, cursors, last>>

(***************************************************************************)
(* calamine::Data, restricted to the two variants the sheet code names or  *)
(* writes: Data::Empty and Data::String.                                   *)
(***************************************************************************)
DataEmpty == [t |-> "Empty", s |-> ""]

DataString(s) == [t |-> "String", s |-> s]

\* <&Data as Into<CellValue>>::into followed by the conversion to a Python
\* object: an empty cell reads as the empty string, a string as itself.
CellValue(d) == IF d.t = "Empty" THEN "" ELSE d.s

Labels == <<"a", "b", "c", "d", "e", "f", "g", "h", "i", "j", "k", "l", "m",
            "n", "o", "p", "q", "r", "s", "t", "u", "v", "w", "x", "y", "z">>

\* The text the parser put in cell (r, c): distinct per position within the bounds.
Label(r, c) == Labels[((r * (MaxStart + MaxWidth) + c) % Len(Labels)) + 1]

Min(a, b) == IF a < b THEN a ELSE b

Max(a, b) == IF a > b THEN a ELSE b

\* Option<T>: None is the empty tuple, Some(x) the one-element tuple.
None == <<>>

Some(x) == <<x>>

(***************************************************************************)
(* calamine::Range<Data> as the sheet code uses it: start and end are      *)
(* absolute coordinates, inner holds the cells row by row; the empty range *)
(* has no cells.                                                           *)
(***************************************************************************)
EmptyRange == [start |-> <<0, 0>>, end |-> <<0, 0>>, inner |-> <<>>]

RangeIsEmpty(rg) == rg.inner = <<>>

RangeStart(rg) == IF RangeIsEmpty(rg) THEN None ELSE Some(rg.start)

RangeEnd(rg) == IF RangeIsEmpty(rg) THEN None ELSE Some(rg.end)

RangeHeight(rg) == IF RangeIsEmpty(rg) THEN 0 ELSE rg.end[1] - rg.start[1] + 1

RangeWidth(rg) == IF RangeIsEmpty(rg) THEN 0 ELSE rg.end[2] - rg.start[2] + 1

InRange(rg, pos) ==
    /\ ~RangeIsEmpty(rg)
    /\ pos[1] >= rg.start[1] /\ pos[1] <= rg.end[1]
    /\ pos[2] >= rg.start[2] /\ pos[2] <= rg.end[2]

CellIndex(rg, pos) ==
    (pos[1] - rg.start[1]) * RangeWidth(rg) + (pos[2] - rg.start[2]) + 1

\* Range::get_value: Some(cell) inside the rectangle, None outside it.
RangeGetValue(rg, pos) ==
    IF InRange(rg, pos) THEN Some(rg.inner[CellIndex(rg, pos)]) ELSE None

\* The coordinates of the rectangle from s to e.
Rect(s, e) == (s[1]..e[1]) \X (s[2]..e[2])

\* Range::new(start, end) filled from the cell map f: the cells of the
\* rectangle, row by row.
MkRange(s, e, f) ==
    LET w == e[2] - s[2] + 1
        h == e[1] - s[1] + 1
    IN  [start |-> s, end |-> e,
         inner |-> [i \in 1..(h * w) |->
                       f[<<s[1] + ((i - 1) \div w), s[2] + ((i - 1) % w)>>]]]

\* Range::set_value: panics below the start, grows the range past the end,
\* then stores the value. The result is [panic, range].
RangeSetValue(rg, pos, v) ==
    IF ~(rg.start[1] <= pos[1] /\ rg.start[2] <= pos[2])
    THEN [panic |-> TRUE, range |-> rg]
    ELSE LET e == <<Max(rg.end[1], pos[1]), Max(rg.end[2], pos[2])>>
             cell == [p \in Rect(rg.start, e) |->
                         IF p = pos THEN v
                         ELSE IF InRange(rg, p) THEN rg.inner[CellIndex(rg, p)]
                         ELSE DataEmpty]
         IN  [panic |-> FALSE, range |-> MkRange(rg.start, e, cell)]

\* Range::rows: the rows of the rectangle in order; none for the empty range.
RangeRows(rg) ==
    IF RangeIsEmpty(rg) THEN <<>>
    ELSE LET w == RangeWidth(rg)
         IN  [i \in 1..RangeHeight(rg) |->
                 [j \in 1..w |-> rg.inner[(i - 1) * w + j]]]

\* Range::range(start, end): a new rectangle of default cells with the
\* overlap copied from rg.
RangeRange(rg, s, e) ==
    LET cell == [p \in Rect(s, e) |->
                    IF InRange(rg, p) THEN rg.inner[CellIndex(rg, p)]
                    ELSE DataEmpty]
    IN  MkRange(s, e, cell)

(***************************************************************************)
(* The ranges a parser hands to CalamineSheet::new.                        *)
(***************************************************************************)
\* What the parser read at (r, c): a text of its own on the even diagonals,
\* nothing on the odd ones.
Parsed(r, c) ==
    IF (r + c) % 2 = 1 THEN DataEmpty ELSE DataString(Label(r, c))

ParsedRange(sr, sc, h, w) ==
    LET e == <<sr + h - 1, sc + w - 1>>
    IN  MkRange(<<sr, sc>>, e, [p \in Rect(<<sr, sc>>, e) |-> Parsed(p[1], p[2])])

SheetRanges ==
    {EmptyRange} \cup
    {ParsedRange(sr, sc, h, w) :
        sr \in 0..MaxStart, sc \in 0..MaxStart,
        h \in 1..MaxHeight, w \in 1..MaxWidth}

(***************************************************************************)
(* CalamineSheet: the dimension getters.                                   *)
(***************************************************************************)
height == RangeHeight(range)

width == RangeWidth(range)

\* A total_height that counts the rows: end.0 + 1 of the defaulted end.
total_height_counted == (IF RangeEnd(range) = None THEN 0 ELSE RangeEnd(range)[1][1]) + 1

total_height == IF RangeEnd(range) = None THEN 0 ELSE RangeEnd(range)[1][1]

total_width == IF RangeEnd(range) = None THEN 0 ELSE RangeEnd(range)[1][2]

start == RangeStart(range)

end == RangeEnd(range)

(***************************************************************************)
(* CalamineSheet::to_python.                                               *)
(***************************************************************************)
\* A row of cells as Python sees it.
PyRow(row) == [j \in 1..Len(row) |-> CellValue(row[j])]

Take(seq, n) == SubSeq(seq, 1, Min(n, Len(seq)))

\* A default row count that is the height of the range, not end.0 + 1.
EffectiveRowsHeight(rg, nrows) ==
    IF nrows # None THEN nrows[1] ELSE RangeHeight(rg)

\* let nrows = match nrows { Some(nrows) => nrows, None => end.0 + 1 or 0 }
EffectiveRows(rg, nrows) ==
    IF nrows # None THEN nrows[1]
    ELSE IF RangeEnd(rg) = None THEN 0 ELSE RangeEnd(rg)[1][1] + 1

\* A range choice that carves from (0, 0) whatever skip_empty_area says.
SelectRangeIgnoresSkip(rg, skip_empty_area, n) ==
    IF RangeStart(rg) = Some(<<0, 0>>)
    THEN {[panic |-> FALSE, wrapped |-> FALSE, range |-> rg]}
    ELSE IF RangeEnd(rg) # None
    THEN LET e == RangeEnd(rg)[1]
         IN  IF n > e[1]
             THEN {[panic |-> FALSE, wrapped |-> FALSE,
                    range |-> RangeRange(rg, <<0, 0>>, <<e[1], e[2]>>)]}
             ELSE IF n = 0
             THEN {[panic |-> TRUE, wrapped |-> FALSE, range |-> rg],
                   [panic |-> FALSE, wrapped |-> TRUE, range |-> rg]}
             ELSE {[panic |-> FALSE, wrapped |-> FALSE,
                    range |-> RangeRange(rg, <<0, 0>>, <<n - 1, e[2]>>)]}
    ELSE {[panic |-> FALSE, wrapped |-> FALSE, range |-> rg]}

\* The range to_python reads, as the set of results the build can give:
\* the shared range, or the sub-range carved from (0, 0). With n = 0 the
\* carve computes n - 1 in u32: a panic under overflow checks; without
\* them the row bound wraps to 2^32 - 1, a rectangle whose allocation
\* fails or, if it succeeds, is cut to no rows by take(0).
SelectRange(rg, skip_empty_area, n) ==
    IF skip_empty_area \/ RangeStart(rg) = Some(<<0, 0>>)
    THEN {[panic |-> FALSE, wrapped |-> FALSE, range |-> rg]}
    ELSE IF RangeEnd(rg) # None
    THEN LET e == RangeEnd(rg)[1]
         IN  IF n > e[1]
             THEN {[panic |-> FALSE, wrapped |-> FALSE,
                    range |-> RangeRange(rg, <<0, 0>>, <<e[1], e[2]>>)]}
             ELSE IF n = 0
             THEN {[panic |-> TRUE, wrapped |-> FALSE, range |-> rg],
                   [panic |-> FALSE, wrapped |-> TRUE, range |-> rg]}
             ELSE {[panic |-> FALSE, wrapped |-> FALSE,
                    range |-> RangeRange(rg, <<0, 0>>, <<n - 1, e[2]>>)]}
    ELSE {[panic |-> FALSE, wrapped |-> FALSE, range |-> rg]}

\* The rows one selected range gives: range.rows().take(nrows), each cell
\* converted.
Materialize(sel, n) ==
    IF sel.panic THEN [res |-> "panic", rows |-> <<>>]
    ELSE IF sel.wrapped THEN [res |-> "ok", rows |-> <<>>]
    ELSE LET rows == Take(RangeRows(sel.range), n)
         IN  [res |-> "ok", rows |-> [i \in 1..Len(rows) |-> PyRow(rows[i])]]

\* A to_python that reads skip_empty_area as "leave out the empty rows" too.
ToPythonSkipsEmptyRows(rg, skip_empty_area, nrows) ==
    LET n == EffectiveRows(rg, nrows)
        blank(row) == \A j \in 1..Len(row) : row[j] = ""
        keep(o) == IF skip_empty_area
                   THEN [o EXCEPT !.rows = SelectSeq(o.rows, LAMBDA row : ~blank(row))]
                   ELSE o
    IN  {keep(Materialize(sel, n)) : sel \in SelectRange(rg, skip_empty_area, n)}

\* to_python(skip_empty_area, nrows): the set of [res, rows] it can return.
ToPython(rg, skip_empty_area, nrows) ==
    LET n == EffectiveRows(rg, nrows)
    IN  {Materialize(sel, n) : sel \in SelectRange(rg, skip_empty_area, n)}

(***************************************************************************)
(* CalamineSheet::merge_cells.                                             *)
(***************************************************************************)
\* The two checks in the other order: bounds first.
ValidateBoundsFirst(rg, r1, c1, r2, c2) ==
    IF r2 >= RangeHeight(rg) \/ c2 >= RangeWidth(rg) THEN "OutOfBounds"
    ELSE IF r1 > r2 \/ c1 > c2 THEN "InvalidRegion"
    ELSE "Ok"

\* The bounds check with > for >=.
ValidateOffByOne(rg, r1, c1, r2, c2) ==
    IF r1 > r2 \/ c1 > c2 THEN "InvalidRegion"
    ELSE IF r2 > RangeHeight(rg) \/ c2 > RangeWidth(rg) THEN "OutOfBounds"
    ELSE "Ok"

\* Lines 224-236: the two checks, in the order the code makes them.
Validate(rg, r1, c1, r2, c2) ==
    IF r1 > r2 \/ c1 > c2 THEN "InvalidRegion"
    ELSE IF r2 >= RangeHeight(rg) \/ c2 >= RangeWidth(rg) THEN "OutOfBounds"
    ELSE "Ok"

\* The cells of the region in the order of the two nested loops.
RegionCells(r1, c1, r2, c2) ==
    LET w == c2 - c1 + 1
    IN  [i \in 1..((r2 - r1 + 1) * w) |-> <<r1 + ((i - 1) \div w), c1 + ((i - 1) % w)>>]

\* Lines 245-255 from the i-th cell on, on the private copy rg: the anchor
\* gets merged_value back when there is one, every other cell Data::Empty.
RECURSIVE Flatten(_, _, _, _)
Flatten(rg, cells, i, merged_value) ==
    IF i > Len(cells) THEN [panic |-> FALSE, range |-> rg]
    ELSE LET w == IF i = 1
                  THEN IF merged_value # None
                       THEN RangeSetValue(rg, cells[i], merged_value[1])
                       ELSE [panic |-> FALSE, range |-> rg]
                  ELSE RangeSetValue(rg, cells[i], DataEmpty)
         IN  IF w.panic THEN [panic |-> TRUE, range |-> rg]
             ELSE Flatten(w.range, cells, i + 1, merged_value)

\* An insert that takes out a region the set already holds.
HashSetInsertToggle(set, region) ==
    IF region \in set THEN set \ {region} ELSE set \cup {region}

\* HashSet::insert.
HashSetInsert(set, region) == set \cup {region}

\* A merge_cells that records the region before it checks the bounds.
MergeCellsInsertFirst(rg, merged, lock_fails, r1, c1, r2, c2) ==
    LET region == <<r1, c1, r2, c2>>
        recorded == IF lock_fails THEN merged ELSE HashSetInsert(merged, region)
        flat == Flatten(rg, RegionCells(r1, c1, r2, c2), 1, RangeGetValue(rg, <<r1, c1>>))
    IN  IF r1 > r2 \/ c1 > c2
        THEN [res |-> "InvalidRegion", range |-> rg, copy |-> rg, merged |-> merged,
              inserted |-> FALSE]
        ELSE IF r2 >= RangeHeight(rg) \/ c2 >= RangeWidth(rg)
        THEN [res |-> "OutOfBounds", range |-> rg, copy |-> rg, merged |-> recorded,
              inserted |-> FALSE]
        ELSE IF flat.panic
        THEN [res |-> "panic", range |-> rg, copy |-> flat.range, merged |-> recorded,
              inserted |-> FALSE]
        ELSE [res |-> "Ok", range |-> rg, copy |-> flat.range, merged |-> recorded,
              inserted |-> ~lock_fails /\ region \notin merged]

\* A merge_cells that stores the copy it wrote as the sheet's range and
\* lets a region end one row or column past the last.
MergeCellsStoresCopy(rg, merged, lock_fails, r1, c1, r2, c2) ==
    LET v == ValidateOffByOne(rg, r1, c1, r2, c2)
        flat == Flatten(rg, RegionCells(r1, c1, r2, c2), 1, RangeGetValue(rg, <<r1, c1>>))
    IN  IF v # "Ok"
        THEN [res |-> v, range |-> rg, copy |-> rg, merged |-> merged, inserted |-> FALSE]
        ELSE IF RangeIsEmpty(rg) \/ flat.panic
        THEN [res |-> "panic", range |-> rg, copy |-> rg, merged |-> merged,
              inserted |-> FALSE]
        ELSE [res |-> "Ok", range |-> flat.range, copy |-> flat.range,
              merged |-> IF lock_fails THEN merged
                         ELSE HashSetInsert(merged, <<r1, c1, r2, c2>>),
              inserted |-> ~lock_fails /\ <<r1, c1, r2, c2>> \notin merged]

\* A merge_cells that keeps only the region of the last merge.
MergeCellsKeepsLast(rg, merged, lock_fails, r1, c1, r2, c2) ==
    LET v == Validate(rg, r1, c1, r2, c2)
        flat == Flatten(rg, RegionCells(r1, c1, r2, c2), 1, RangeGetValue(rg, <<r1, c1>>))
    IN  IF v # "Ok"
        THEN [res |-> v, range |-> rg, copy |-> rg, merged |-> merged, inserted |-> FALSE]
        ELSE IF flat.panic
        THEN [res |-> "panic", range |-> rg, copy |-> flat.range, merged |-> merged,
              inserted |-> FALSE]
        ELSE [res |-> "Ok", range |-> rg, copy |-> flat.range,
              merged |-> IF lock_fails THEN merged ELSE {<<r1, c1, r2, c2>>},
              inserted |-> ~lock_fails /\ <<r1, c1, r2, c2>> \notin merged]

\* merge_cells as a function of the sheet: res is what the call returns,
\* range the sheet's range after it, copy the private copy the loops wrote
\* (dropped when the call returns), merged the set after it, inserted what
\* HashSet::insert returned (true for a region the set did not hold).
MergeCells(rg, merged, lock_fails, r1, c1, r2, c2) ==
    LET v == Validate(rg, r1, c1, r2, c2)
        flat == Flatten(rg, RegionCells(r1, c1, r2, c2), 1, RangeGetValue(rg, <<r1, c1>>))
    IN  IF v # "Ok"
        THEN [res |-> v, range |-> rg, copy |-> rg, merged |-> merged, inserted |-> FALSE]
        ELSE IF flat.panic
        THEN [res |-> "panic", range |-> rg, copy |-> flat.range, merged |-> merged,
              inserted |-> FALSE]
        ELSE [res |-> "Ok", range |-> rg, copy |-> flat.range,
              merged |-> IF lock_fails THEN merged
                         ELSE HashSetInsert(merged, <<r1, c1, r2, c2>>),
              inserted |-> ~lock_fails /\ <<r1, c1, r2, c2>> \notin merged]

\* get_merged_cells: the set as a Vec, in the order the HashSet iterates.
Orders(set) ==
    {f \in [1..Cardinality(set) -> set] : \A i, j \in DOMAIN f : f[i] = f[j] => i = j}

GetMergedCells(merged, lock_fails) ==
    IF lock_fails THEN {[res |-> "AccessFailure", rows |-> <<>>]}
    ELSE {[res |-> "ok", rows |-> f] : f \in Orders(merged)}

(***************************************************************************)
(* CalamineCellIterator.                                                   *)
(***************************************************************************)
CursorIds == 1..2

\* position is a u32. The model keeps it in two parts, its top bit
\* position_hi and its low 31 bits position: the value is
\* position_hi * 2^31 + position, and u32::MAX is (1, PositionLowMax).
PositionLowMax == 2147483647

NoCursor ==
    [live |-> FALSE, position_hi |-> 0, position |-> 0, start |-> <<0, 0>>,
     empty_row |-> <<>>, iter |-> 0, range |-> EmptyRange]

\* from_range: range.start().unwrap() panics on the empty range.
FromRange(rg) ==
    IF RangeStart(rg) = None THEN [panic |-> TRUE, cursor |-> NoCursor]
    ELSE [panic |-> FALSE,
          cursor |-> [live |-> TRUE, position_hi |-> 0, position |-> 0,
                      start |-> RangeStart(rg)[1],
                      empty_row |-> [j \in 1..RangeWidth(rg) |-> ""],
                      iter |-> 0, range |-> rg]]

\* slf.position += 1 on the two parts, wrapping at 2^32.
PositionInc(cur) ==
    IF cur.position < PositionLowMax
    THEN [hi |-> cur.position_hi, lo |-> cur.position + 1]
    ELSE IF cur.position_hi = 0 THEN [hi |-> 1, lo |-> 0]
    ELSE [hi |-> 0, lo |-> 0]

\* The increment overflows the u32.
PositionOverflows(cur) == cur.position_hi = 1 /\ cur.position = PositionLowMax

\* A __next__ that compares the position before it increments it.
CursorNextLate(cur) ==
    LET position == cur.position + 1
        rows == RangeRows(cur.range)
    IN  IF cur.position > cur.start[1]
        THEN IF cur.iter < Len(rows)
             THEN [cursor |-> [cur EXCEPT !.position = position, !.iter = cur.iter + 1],
                   res |-> "row", rows |-> <<PyRow(rows[cur.iter + 1])>>]
             ELSE [cursor |-> [cur EXCEPT !.position = position],
                   res |-> "none", rows |-> <<>>]
        ELSE [cursor |-> [cur EXCEPT !.position = position],
              res |-> "row", rows |-> <<cur.empty_row>>]

\* A __next__ that streams from position >= start.0 on: one padding row short.
CursorNextNoPad(cur) ==
    LET position == cur.position + 1
        rows == RangeRows(cur.range)
    IN  IF position >= cur.start[1]
        THEN IF cur.iter < Len(rows)
             THEN [cursor |-> [cur EXCEPT !.position = position, !.iter = cur.iter + 1],
                   res |-> "row", rows |-> <<PyRow(rows[cur.iter + 1])>>]
             ELSE [cursor |-> [cur EXCEPT !.position = position],
                   res |-> "none", rows |-> <<>>]
        ELSE [cursor |-> [cur EXCEPT !.position = position],
              res |-> "row", rows |-> <<cur.empty_row>>]

\* __next__ where the increment does not panic: the cursor after the call
\* and the Option it returns. start.0 is below 2^31 in every sheet of the
\* model, so position > start.0 holds whenever the top bit is set.
CursorNext(cur) ==
    LET p == PositionInc(cur)
        moved == [cur EXCEPT !.position_hi = p.hi, !.position = p.lo]
        rows == RangeRows(cur.range)
    IN  IF p.hi = 1 \/ p.lo > cur.start[1]
        THEN IF cur.iter < Len(rows)
             THEN [cursor |-> [moved EXCEPT !.iter = cur.iter + 1],
                   res |-> "row", rows |-> <<PyRow(rows[cur.iter + 1])>>]
             ELSE [cursor |-> moved, res |-> "none", rows |-> <<>>]
        ELSE [cursor |-> moved, res |-> "row", rows |-> <<cur.empty_row>>]

\* __next__ as the set of results the build can give: when position is
\* u32::MAX the increment panics under overflow checks and leaves the
\* cursor as it was, and wraps to 0 without them.
CursorNextOutcomes(cur) ==
    IF PositionOverflows(cur)
    THEN {[cursor |-> cur, res |-> "panic", rows |-> <<>>], CursorNext(cur)}
    ELSE {CursorNext(cur)}

(***************************************************************************)
(* The state machine.                                                      *)
(***************************************************************************)
Coords == 0..MaxCoord

NRows == {None} \cup {Some(n) : n \in 0..MaxNRows}

Idle ==
    [op |-> "new", res |-> "ok", region |-> None, inserted |-> FALSE,
     skip |-> FALSE, nrows |-> None, cursor |-> 0, rows |-> <<>>]

\* CalamineSheet::new
Init ==
    /\ range \in SheetRanges
    /\ merged_cells = {}
    /\ poisoned = FALSE
    /\ cursors = [k \in CursorIds |-> NoCursor]
    /\ last = Idle

merge_cells(r1, c1, r2, c2) ==
    \E m \in {MergeCells(range, merged_cells, poisoned, r1, c1, r2, c2)} :
        /\ Cardinality(m.merged) <= MaxMerges
        /\ range' = m.range
        /\ merged_cells' = m.merged
        /\ last' = [Idle EXCEPT !.op = "merge_cells", !.res = m.res,
                                !.region = IF m.res = "Ok" THEN Some(<<r1, c1, r2, c2>>)
                                           ELSE None,
                                !.inserted = m.inserted]
        /\ UNCHANGED <<poisoned, cursors>>

get_merged_cells ==
    /\ \E o \in GetMergedCells(merged_cells, poisoned) :
          last' = [Idle EXCEPT !.op = "get_merged_cells", !.res = o.res, !.rows = o.rows]
    /\ UNCHANGED <<range, merged_cells, poisoned, cursors>>

to_python(skip_empty_area, nrows) ==
    /\ \E o \in ToPython(range, skip_empty_area, nrows) :
          last' = [Idle EXCEPT !.op = "to_python", !.res = o.res, !.rows = o.rows,
                               !.skip = skip_empty_area, !.nrows = nrows]
    /\ UNCHANGED <<range, merged_cells, poisoned, cursors>>

iter_rows(k) ==
    \E c \in {FromRange(range)} :
        /\ cursors' = IF c.panic THEN cursors ELSE [cursors EXCEPT ![k] = c.cursor]
        /\ last' = [Idle EXCEPT !.op = "iter_rows", !.cursor = k,
                                !.res = IF c.panic THEN "panic" ELSE "ok"]
        /\ UNCHANGED <<range, merged_cells, poisoned>>

\* A __next__ whose position counter is one counter for all the cursors of
\* the sheet.
cursor_next_shared(k) ==
    /\ cursors[k].live
    /\ cursors[k].position_hi = 1 \/ cursors[k].position < MaxCalls
    /\ \E n \in CursorNextOutcomes(cursors[k]) :
           /\ cursors' = [j \in CursorIds |->
                             IF j = k THEN n.cursor
                             ELSE IF cursors[j].live
                             THEN [cursors[j] EXCEPT !.position = n.cursor.position]
                             ELSE cursors[j]]
           /\ last' = [Idle EXCEPT !.op = "next", !.cursor = k, !.res = n.res,
                                   !.rows = n.rows]
    /\ UNCHANGED <<range, merged_cells, poisoned>>

cursor_next(k) ==
    /\ cursors[k].live
    /\ cursors[k].position_hi = 1 \/ cursors[k].position < MaxCalls
    /\ \E n \in CursorNextOutcomes(cursors[k]) :
           /\ cursors' = [cursors EXCEPT ![k] = n.cursor]
           /\ last' = [Idle EXCEPT !.op = "next", !.cursor = k, !.res = n.res,
                                   !.rows = n.rows]
    /\ UNCHANGED <<range, merged_cells, poisoned>>

\* A holder of the guard panics: the Mutex is poisoned and lock() returns Err.
PoisonGuard ==
    /\ ~poisoned
    /\ poisoned' = TRUE
    /\ last' = [Idle EXCEPT !.op = "poison"]
    /\ UNCHANGED <<range, merged_cells, cursors>>

Merge == \E r1, c1, r2, c2 \in Coords : merge_cells(r1, c1, r2, c2)

Snapshot == get_merged_cells

ToList == \E skip_empty_area \in BOOLEAN, nrows \in NRows : to_python(skip_empty_area, nrows)

IterRows == \E k \in CursorIds : iter_rows(k)

CursorStep == \E k \in CursorIds : cursor_next(k)

Next == Merge \/ Snapshot \/ ToList \/ IterRows \/ CursorStep

Spec == Init /\ [][Next]_vars

\* The operations that write: merges and snapshots of the merge set.
NextSheet == Merge \/ Snapshot

SpecSheet == Init /\ [][NextSheet]_vars

\* The operations that read rows: bulk lists and cursors.
NextRead == ToList \/ IterRows \/ CursorStep

SpecRead == Init /\ [][NextRead]_vars

\* The sheet's operations when the guard of merged_cells can be poisoned.
NextGuard == Merge \/ Snapshot \/ PoisonGuard

SpecGuard == Init /\ [][NextGuard]_vars

\* The cursors of the 3x2 sheet of the spec's example: start (1, 0), end (3, 1).
ExampleRange == ParsedRange(1, 0, 3, 2)

InitExample ==
    /\ range = ExampleRange
    /\ merged_cells = {}
    /\ poisoned = FALSE
    /\ cursors = [k \in CursorIds |-> NoCursor]
    /\ last = Idle

SpecExample == InitExample /\ [][NextRead]_vars

\* Cursors next to the operations on the merge set.
NextShared == Merge \/ Snapshot \/ IterRows \/ CursorStep

SpecShared == Init /\ [][NextShared]_vars

\* The cursor operations alone.
NextCursor == IterRows \/ CursorStep

\* A cursor over rg after 2^32 - 2 calls of __next__: the first start.0
\* calls returned padding, the next height() calls drained the row
\* iterator, and every call since returned None and added one to position.
LongRunCursor(rg) ==
    [FromRange(rg).cursor EXCEPT !.position_hi = 1, !.position = PositionLowMax - 1,
                                 !.iter = RangeHeight(rg)]

\* A sheet whose first cursor has been called 2^32 - 2 times.
InitLongRun ==
    /\ range \in SheetRanges \ {EmptyRange}
    /\ merged_cells = {}
    /\ poisoned = FALSE
    /\ cursors = [k \in CursorIds |-> IF k = 1 THEN LongRunCursor(range) ELSE NoCursor]
    /\ last = [Idle EXCEPT !.op = "next", !.cursor = 1, !.res = "none"]

SpecLongRun == InitLongRun /\ [][NextCursor]_vars

(***************************************************************************)
(* What a caller reads from the sheet.                                     *)
(***************************************************************************)
\* The list to_python(skip_empty_area = False, nrows = None) returns.
FullList(rg) == (CHOOSE o \in ToPython(rg, FALSE, None) : TRUE).rows

\* The rows a cursor still has to give, at most fuel of them.
RECURSIVE Drain(_, _)
Drain(cur, fuel) ==
    LET n == CursorNext(cur)
    IN  IF fuel = 0 \/ n.res = "none" THEN <<>>
        ELSE <<n.rows[1]>> \o Drain(n.cursor, fuel - 1)

\* Every row of a fresh cursor over rg.
CursorRows(rg) ==
    IF FromRange(rg).panic THEN <<>>
    ELSE Drain(FromRange(rg).cursor, rg.end[1] + 2)

\* Cell p as the bulk list shows it: rows and columns count from (0, 0).
ListCell(rg, p) == FullList(rg)[p[1] + 1][p[2] + 1]

\* Cell p as a fresh cursor shows it: rows count from 0, columns from start.1.
CursorHasCell(rg, p) ==
    /\ p[1] + 1 <= Len(CursorRows(rg))
    /\ p[2] >= rg.start[2] /\ p[2] <= rg.end[2]

CursorCell(rg, p) == CursorRows(rg)[p[1] + 1][p[2] - rg.start[2] + 1]

\* What the n-th next() returns on cursor cur when nothing else runs.
RECURSIVE SoloCall(_, _)
SoloCall(cur, n) ==
    IF n <= 1 THEN CursorNext(cur) ELSE SoloCall(CursorNext(cur).cursor, n - 1)

RegionOf(a) == Rect(<<a[1], a[2]>>, <<a[3], a[4]>>)

Count(seq, x) == Cardinality({i \in DOMAIN seq : seq[i] = x})

(***************************************************************************)
(* Claims.                                                                 *)
(***************************************************************************)
\* C1: after merge(r1,c1,r2,c2) returns success, every cell of the region
\* other than (r1,c1) reads as empty from the sheet, through the bulk list
\* and through a cursor opened after the merge, and (r1,c1) reads its
\* pre-merge value.
C1_MergeFlattensRegion ==
    [][(last'.op = "merge_cells" /\ last'.res = "Ok") =>
         LET a == last'.region[1]
         IN  \A p \in RegionOf(a) :
                IF p = <<a[1], a[2]>>
                THEN ListCell(range', p) = ListCell(range, p)
                ELSE /\ ListCell(range', p) = ""
                     /\ CursorHasCell(range', p) => CursorCell(range', p) = ""]_vars

\* C2: with a declared start row sr > 0, calls 1..sr of a fresh cursor each
\* return an all-empty row of width() cells and call sr + 1 returns the
\* range's first real row.
C2_PaddingThenFirstRow ==
    (last.op = "next" /\ cursors[last.cursor].start[1] > 0) =>
        LET cur == cursors[last.cursor]
        IN  /\ cur.position <= cur.start[1] =>
                  /\ last.res = "row"
                  /\ last.rows = <<[j \in 1..width |-> ""]>>
            /\ cur.position = cur.start[1] + 1 =>
                  /\ last.res = "row"
                  /\ last.rows = <<PyRow(RangeRows(range)[1])>>

\* C2 witness: the call after sr >= 1 padding rows has returned the first
\* real row, which holds a text.
C2_Witness ==
    /\ last.op = "next"
    /\ cursors[last.cursor].start[1] > 0
    /\ cursors[last.cursor].position = cursors[last.cursor].start[1] + 1
    /\ last.res = "row"
    /\ \E j \in 1..width : last.rows[1][j] # ""

\* C3: a merge that fails validation (InvalidRegion or OutOfBounds) leaves
\* the sheet's range and the merge set exactly as they were.
C3_FailedMergeChangesNothing ==
    [][(last'.op = "merge_cells" /\ last'.res \in {"InvalidRegion", "OutOfBounds"}) =>
         (range' = range /\ merged_cells' = merged_cells)]_vars

\* C3 witness: a merge has failed validation on a sheet that holds a region.
C3_Witness ==
    /\ last.op = "merge_cells"
    /\ last.res \in {"InvalidRegion", "OutOfBounds"}
    /\ merged_cells # {}

\* C4: once merge(r1,c1,r2,c2) has succeeded, the snapshot holds exactly one
\* entry equal to (r1,c1,r2,c2), and the same call again succeeds and leaves
\* the merge set as it is.
C4_MergeTwiceOneEntry ==
    (last.op = "merge_cells" /\ last.res = "Ok") =>
        LET a == last.region[1]
            again == MergeCells(range, merged_cells, poisoned, a[1], a[2], a[3], a[4])
        IN  /\ \A o \in GetMergedCells(merged_cells, poisoned) :
                  o.res = "ok" /\ Count(o.rows, a) = 1
            /\ again.res = "Ok"
            /\ again.merged = merged_cells
            /\ \A o \in GetMergedCells(again.merged, poisoned) : Count(o.rows, a) = 1

\* C4 witness: a merge has succeeded for a region the set already held.
C4_Witness ==
    /\ last.op = "merge_cells"
    /\ last.res = "Ok"
    /\ ~last.inserted
    /\ last.region[1] \in merged_cells

\* C5: merge with start_row > end_row fails with InvalidRegion whatever the
\* columns and the sheet's size, out of bounds or not, and leaves the
\* snapshot as it was.
C5_InvertedRowsInvalidRegion ==
    \A r1, c1, r2, c2 \in Coords :
        r1 > r2 =>
            LET m == MergeCells(range, merged_cells, poisoned, r1, c1, r2, c2)
            IN  /\ m.res = "InvalidRegion"
                /\ GetMergedCells(m.merged, poisoned) = GetMergedCells(merged_cells, poisoned)

\* C5 witness: a merge has failed with InvalidRegion on a sheet that holds a
\* region and is so small that some region with inverted rows is out of
\* bounds too, by its end row or by its end column.
C5_Witness ==
    /\ last.op = "merge_cells"
    /\ last.res = "InvalidRegion"
    /\ merged_cells # {}
    /\ \E r1, r2, c2 \in Coords : r1 > r2 /\ (r2 >= height \/ c2 >= width)

\* C6 as stated: merge with end_row = height() fails with OutOfBounds for
\* every start_row, start_col and end_col.
C6_EndRowAtHeightOutOfBounds ==
    \A r1, c1, r2, c2 \in Coords :
        r2 = height =>
            MergeCells(range, merged_cells, poisoned, r1, c1, r2, c2).res = "OutOfBounds"

\* C6 amended: merge with end_row = height() always fails, with OutOfBounds
\* when start_row <= end_row and start_col <= end_col, with InvalidRegion
\* otherwise.
C6_EndRowAtHeightFails ==
    \A r1, c1, r2, c2 \in Coords :
        r2 = height =>
            MergeCells(range, merged_cells, poisoned, r1, c1, r2, c2).res =
                IF r1 <= r2 /\ c1 <= c2 THEN "OutOfBounds" ELSE "InvalidRegion"

\* C6 witness: a merge has failed with OutOfBounds on a sheet with rows,
\* whose height is a row the calls name.
C6_Witness ==
    /\ last.op = "merge_cells"
    /\ last.res = "OutOfBounds"
    /\ height > 0
    /\ height \in Coords

\* C7: whenever merge returns success the region is in the merge set; with
\* the guard not acquired, merge does not return success.
C7_SuccessMeansRecorded ==
    (last.op = "merge_cells" /\ last.res = "Ok") =>
        (last.region[1] \in merged_cells /\ ~poisoned)

\* C8: to_python completes for every skip_empty_area and nrows and returns
\* at most the effective row count of rows.
C8_ListCompletesWithinLimit ==
    last.op = "to_python" =>
        /\ last.res = "ok"
        /\ Len(last.rows) <= EffectiveRows(range, last.nrows)

\* C9: on a range whose declared start is (0,0), to_python(False, None) and
\* to_python(True, None) return the same list.
C9_OriginListsAgree ==
    (start = Some(<<0, 0>>) /\ last.op = "to_python" /\ last.nrows = None) =>
        /\ [res |-> last.res, rows |-> last.rows] \in ToPython(range, ~last.skip, None)
        /\ ToPython(range, FALSE, None) = ToPython(range, TRUE, None)

\* C9 witness: to_python(False, None) has returned the rows of a range that
\* starts at (0,0), one of them empty.
C9_Witness ==
    /\ start = Some(<<0, 0>>)
    /\ last.op = "to_python"
    /\ ~last.skip
    /\ last.nrows = None
    /\ \E i \in 1..Len(last.rows) : \A j \in 1..Len(last.rows[i]) : last.rows[i][j] = ""

\* C10 as stated: on the range from (1,0) to (3,1) the first next() returns
\* the padding row, the second the first real row, the fourth nothing.
C10_ExampleFourthIsNothing ==
    (start = Some(<<1, 0>>) /\ end = Some(<<3, 1>>) /\ last.op = "next") =>
        LET cur == cursors[last.cursor]
        IN  /\ cur.position = 1 => last.rows = << <<"", "">> >>
            /\ cur.position = 2 => last.rows = <<PyRow(RangeRows(range)[1])>>
            /\ cur.position = 4 => last.res = "none"

\* C10 amended: the first next() returns the padding row, the second the
\* first real row, the fourth the third and last real row, and the fifth
\* nothing.
C10_ExampleFifthIsNothing ==
    (start = Some(<<1, 0>>) /\ end = Some(<<3, 1>>) /\ last.op = "next") =>
        LET cur == cursors[last.cursor]
        IN  /\ cur.position = 1 => (last.res = "row" /\ last.rows = << <<"", "">> >>)
            /\ cur.position = 2 =>
                  (last.res = "row" /\ last.rows = <<PyRow(RangeRows(range)[1])>>)
            /\ cur.position = 4 =>
                  (last.res = "row" /\ last.rows = <<PyRow(RangeRows(range)[3])>>)
            /\ cur.position = 5 => last.res = "none"

\* C10 witness: the fifth next() on the example range has returned nothing.
C10_Witness ==
    /\ start = Some(<<1, 0>>)
    /\ end = Some(<<3, 1>>)
    /\ last.op = "next"
    /\ cursors[last.cursor].position = 5
    /\ last.res = "none"

\* C11: on an empty range height, width, total_height and total_width
\* return 0, start and end return nothing, and to_python without nrows
\* returns the empty list for every skip_empty_area.
C11_EmptyRangeQueries ==
    RangeIsEmpty(range) =>
        /\ height = 0 /\ width = 0
        /\ total_height = 0 /\ total_width = 0
        /\ start = None /\ end = None
        /\ \A skip_empty_area \in BOOLEAN :
              ToPython(range, skip_empty_area, None) = {[res |-> "ok", rows |-> <<>>]}
        /\ (last.op = "to_python" /\ last.nrows = None) =>
              (last.res = "ok" /\ last.rows = <<>>)

\* C11 witness: to_python(False, None) has returned on a sheet whose range
\* is empty.
C11_Witness ==
    /\ RangeIsEmpty(range)
    /\ last.op = "to_python"
    /\ ~last.skip
    /\ last.nrows = None

\* C12: a cursor moves forward only, from padding to real rows: once a
\* next() has drawn a real row from the row iterator, every row a later
\* next() returns is drawn from the iterator too, never a padding row.
C12_PaddingBeforeRealRows ==
    [][\A k \in CursorIds :
          (last'.op = "next" /\ last'.cursor = k /\ last'.res = "row"
           /\ cursors[k].live /\ cursors[k].iter > 0)
          => cursors'[k].iter = cursors[k].iter + 1]_vars

\* C13: once next() has returned nothing on a cursor, the next call on that
\* cursor returns nothing too, whatever the position counter has reached.
C13_ExhaustedStaysExhausted ==
    [][(last.op = "next" /\ last.res = "none"
        /\ last'.op = "next" /\ last'.cursor = last.cursor)
       => last'.res = "none"]_vars

\* C14: whatever other cursors, merges and snapshots ran in between, a
\* cursor's n-th next() returns what the n-th next() of a cursor that runs
\* alone over the range it was created from returns, and leaves the cursor
\* in the same state.
C14_CursorsRunAlone ==
    last.op = "next" =>
        LET cur == cursors[last.cursor]
            solo == SoloCall(FromRange(cur.range).cursor, cur.position)
        IN  /\ last.res = solo.res
            /\ last.rows = solo.rows
            /\ cur = solo.cursor

\* C14 witness: on a sheet that holds a merged region, two cursors are
\* live at different positions and one of them has just returned a row.
C14_Witness ==
    /\ last.op = "next"
    /\ last.res = "row"
    /\ merged_cells # {}
    /\ \A k \in CursorIds : cursors[k].live /\ cursors[k].position > 0
    /\ cursors[1].position # cursors[2].position

C16_GridNeverResized ==
    [][/\ height' = height
       /\ width' = width
       /\ total_height' = total_height
       /\ total_width' = total_width
       /\ start' = start
       /\ end' = end]_vars

\* C16 witness: a merge has succeeded on a sheet with cells, one of whose
\* cursors has been stepped.
C16_Witness ==
    /\ last.op = "merge_cells"
    /\ last.res = "Ok"
    /\ height > 0
    /\ \E k \in CursorIds : cursors[k].live /\ cursors[k].position > 0

\* C17 as stated, for a row limit that is absent or at least 1 (the row
\* limit 0 is the subject of C8): with skip_empty_area false and a declared
\* start other than (0,0), to_python reads the sub-range from (0,0) to
\* (min(row_limit, end.row), end.col) and the rows above the declared start
\* come out all-empty; otherwise it reads the range itself.
C17_SubRangeToRowLimit ==
    (last.op = "to_python" /\ last.nrows # Some(0)) =>
        LET n == EffectiveRows(range, last.nrows)
            out == [res |-> last.res, rows |-> last.rows]
        IN  IF ~last.skip /\ start # None /\ start # Some(<<0, 0>>)
            THEN LET e == end[1]
                     sub == [panic |-> FALSE, wrapped |-> FALSE,
                             range |-> RangeRange(range, <<0, 0>>, <<Min(n, e[1]), e[2]>>)]
                 IN  /\ SelectRange(range, FALSE, n) = {sub}
                     /\ out = Materialize(sub, n)
                     /\ \A i \in 1..Min(Len(last.rows), start[1][1]) :
                           last.rows[i] = [j \in 1..(e[2] + 1) |-> ""]
            ELSE LET whole == [panic |-> FALSE, wrapped |-> FALSE, range |-> range]
                 IN  /\ SelectRange(range, last.skip, n) = {whole}
                     /\ out = Materialize(whole, n)

\* C17 amended: the sub-range ends at row min(row_limit - 1, end.row), the
\* last row the list can hold; with the row limit 0 no sub-range is carved
\* and the call panics or returns no rows.
C17_SubRangeToLastRow ==
    last.op = "to_python" =>
        LET n == EffectiveRows(range, last.nrows)
            out == [res |-> last.res, rows |-> last.rows]
        IN  IF ~last.skip /\ start # None /\ start # Some(<<0, 0>>)
            THEN LET e == end[1]
                     sub == [panic |-> FALSE, wrapped |-> FALSE,
                             range |-> RangeRange(range, <<0, 0>>, <<Min(n - 1, e[1]), e[2]>>)]
                 IN  IF n = 0
                     THEN /\ last.res \in {"panic", "ok"}
                          /\ last.rows = <<>>
                          /\ \A sel \in SelectRange(range, FALSE, n) :
                                sel.panic \/ sel.wrapped
                     ELSE /\ SelectRange(range, FALSE, n) = {sub}
                          /\ out = Materialize(sub, n)
                          /\ \A i \in 1..Min(Len(last.rows), start[1][1]) :
                                last.rows[i] = [j \in 1..(e[2] + 1) |-> ""]
            ELSE LET whole == [panic |-> FALSE, wrapped |-> FALSE, range |-> range]
                 IN  /\ SelectRange(range, last.skip, n) = {whole}
                     /\ out = Materialize(whole, n)

\* C17 witness: to_python(False, nrows) with 1 <= nrows <= end.row has
\* returned an all-empty row above the declared start and a real row.
C17_Witness ==
    /\ last.op = "to_python"
    /\ ~last.skip
    /\ last.nrows # None
    /\ start # None
    /\ start[1][1] > 0
    /\ last.nrows[1] >= 1
    /\ last.nrows[1] <= end[1][1]
    /\ Len(last.rows) > start[1][1]

\* C18: on a non-empty range a cursor returns rows for its first
\* end.row + 1 calls (start.row padding rows, then the height() real rows)
\* and nothing after them, and to_python(False, None) returns a list of the
\* same end.row + 1 rows.
C18_CursorCountsAsList ==
    ~RangeIsEmpty(range) =>
        /\ last.op = "next" =>
              LET cur == cursors[last.cursor]
              IN  /\ (last.res = "row") <=> (cur.position <= end[1][1] + 1)
                  /\ last.res = "row" => cur.iter = Max(0, cur.position - start[1][1])
                  /\ last.res = "none" => cur.iter = height
        /\ (last.op = "to_python" /\ ~last.skip /\ last.nrows = None) =>
              (last.res = "ok" /\ Len(last.rows) = end[1][1] + 1)
        /\ Len(CursorRows(range)) = end[1][1] + 1
        /\ Len(FullList(range)) = Len(CursorRows(range))

\* C18 witness: on a range that starts below row 0, call end.row + 2 of a
\* cursor has returned nothing.
C18_Witness ==
    /\ ~RangeIsEmpty(range)
    /\ start[1][1] > 0
    /\ last.op = "next"
    /\ last.res = "none"
    /\ cursors[last.cursor].position = end[1][1] + 2

\* C19: a merge that passes validation returns success, and every
\* coordinate of its region, the anchor it reads and the cells it writes,
\* lies inside the rectangle from start to end.
C19_ValidatedMergeStaysInside ==
    (last.op = "merge_cells" /\ last.res \notin {"InvalidRegion", "OutOfBounds"}) =>
        /\ last.res = "Ok"
        /\ \A p \in RegionOf(last.region[1]) : InRange(range, p)

\* C20: iter_rows returns a cursor on every sheet, and on an empty range
\* the first next() of that cursor returns nothing.
C20_CursorForEverySheet ==
    last.op = "iter_rows" =>
        /\ last.res = "ok"
        /\ cursors[last.cursor].live
        /\ RangeIsEmpty(range) => CursorNext(cursors[last.cursor]).res = "none"

====
